---- MODULE Spec2Model ----
(***************************************************************************)
(* Model of backend/main.go: four HTTP handlers over one PostgreSQL table  *)
(* (migrations/001_init.sql) and the process lifecycle of main().          *)
(* A handler runs in two steps, split at its single storage call: the      *)
(* checks up to the call (<name>Handler) and the call with the response    *)
(* written after it (<name>Exec / listUsersQuery).                         *)
(***************************************************************************)
EXTENDS Integers, Sequences, FiniteSets, TLC

\* ---------------------------------------------------------------- bounds
MaxId == 2          \* values drawn from the SERIAL sequence
MaxNow == 1         \* readings of the database clock, 0..MaxNow

\* ------------------------------------------------------ program constants
GracePeriod == 5
StatusOK == 200
StatusCreated == 201
StatusBadRequest == 400
StatusMethodNotAllowed == 405
StatusInternalServerError == 500

Reqs == {1, 2}      \* request goroutines that can run at once
Timestamps == 0..MaxNow
Methods == {"GET", "POST", "PUT", "DELETE"}
Names == {"Ann", "Anne"}
Emails == {"ann@x.com", "anne@x.com"}
Routes == {"/users", "/users/list", "/users/delete", "/users/update"}

\* Errors a storage call can end with.
ErrUnique == "duplicate key value violates unique constraint"
ErrConn == "failed to connect"
ErrCanceled == "context canceled"
ErrScan == "cannot scan into dest"
EnvErrors == {ErrConn, ErrCanceled, ErrScan}

VARIABLES
    table,          \* rows of users: [id, name, email, date_registered]
    nextId,         \* next value of the SERIAL sequence behind users.id
    db,             \* the pool handle: "open" | "closing" | "closed"
    mainpc,         \* main(): "serving" | "shutdown" | "closing" | "exited"
    listener,       \* "starting" | "open" | "closed"
    quit,           \* signals buffered in the quit channel (capacity 1)
    timer,          \* seconds left on shutdownCtx
    pc,             \* per request goroutine: "idle" | "db" (in its storage call)
    req,            \* per request goroutine: the request being served
    connGone,       \* per request goroutine: its client has disconnected
    out,            \* the exchange the step just taken completed, if any:
                    \* the request, the response written, the error of
                    \* the storage call and the call it came from
    added           \* history: the emails a create has answered 201 for

vars == <<table, nextId, db, mainpc, listener, quit, timer,
          pc, req, connGone, out, added>>

dataVars == <<table, nextId>>
mainVars == <<db, mainpc, listener, quit, timer>>
reqVars == <<pc, req, connGone>>

\* ------------------------------------------------------------- requests
\* A request body as json.Decoder sees it: syntax says how the first JSON
\* value of the body parses, the fields are those of a decoded object
\* ("" for a field the object does not carry).
Syntaxes == {"invalid", "mistyped", "null", "object", "object+trailing"}

NoBody == [syntax |-> "invalid", name |-> "", email |-> "", oldEmail |-> ""]
NoReq == [route |-> "", method |-> "", body |-> NoBody]
NoResp == [status |-> 0, body |-> <<>>]
NoOut == [req |-> NoReq, resp |-> NoResp, err |-> "", at |-> ""]

Object(sx, n, e, o) == [syntax |-> sx, name |-> n, email |-> e, oldEmail |-> o]

\* The bodies of AllRequests: every decode outcome, and objects with every
\* field present or empty.
Bodies ==
    {NoBody, Object("mistyped", "", "", ""), Object("null", "", "", "")}
    \cup {Object("object", n, e, o) :
            n \in {"", "Ann"}, e \in {"", "ann@x.com"}, o \in {"", "ann@x.com"}}
    \cup {Object("object+trailing", "Ann", "ann@x.com", "ann@x.com")}

\* json.NewDecoder(r.Body).Decode(&input): the error, and the fields read.
DecodeErr(body) == body.syntax \in {"invalid", "mistyped"}
Decoded(body) ==
    IF body.syntax \in {"object", "object+trailing"}
    THEN body
    ELSE [body EXCEPT !.name = "", !.email = "", !.oldEmail = ""]

\* http.Error(w, msg, code) and the w.WriteHeader / w.Write pairs.
Error(msg, code) == [status |-> code, body |-> msg]

Request(rt, m, b) == [route |-> rt, method |-> m, body |-> b]

\* Every request the model sends: each route under each method with each body.
AllRequests == {Request(rt, m, b) : rt \in Routes, m \in Methods, b \in Bodies}

\* The requests of the concurrent specification: creates, a delete, an
\* update and lists that reach the storage call, and a rejected request.
Requests ==
    {Request("/users", "POST", Object("object", "Ann", e, "")) : e \in Emails}
    \cup {Request("/users/list", "GET", NoBody)}
    \cup {Request("/users/delete", "DELETE", Object("object", "", "ann@x.com", ""))}
    \cup {Request("/users/update", "PUT", Object("object", "Anne", "anne@x.com", "ann@x.com"))}
    \cup {Request("/users", "GET", NoBody)}

\* The requests of the sequential specification: every well-formed request
\* over Names and Emails, and for each route requests of each rejected kind.
WellFormed ==
    {Request("/users", "POST", Object("object", n, e, "")) : n \in Names, e \in Emails}
    \cup {Request("/users/list", "GET", NoBody)}
    \cup {Request("/users/delete", "DELETE", Object("object", "", e, "")) : e \in Emails}
    \cup {Request("/users/update", "PUT", Object("object", n, e, o)) :
            n \in Names, e \in Emails, o \in Emails}
Rejected ==
    {Request(rt, IF rt = "/users/list" THEN "POST" ELSE "GET",
             Object("object", "Ann", "ann@x.com", "ann@x.com")) : rt \in Routes}
    \cup {Request("/users", "POST", NoBody),
          Request("/users/delete", "DELETE", Object("null", "", "", "")),
          Request("/users/update", "PUT", Object("object", "", "ann@x.com", "ann@x.com"))}
SeqRequests == WellFormed \cup Rejected

\* ------------------------------------------------------ handler checks
\* The part of each handler before its storage call: the response it
\* returns early with, or NoResp when it goes on to the call.
\* Mutant: the body is decoded before the method is checked.
createUserCheckDecodeFirst(q) ==
    IF DecodeErr(q.body) THEN Error(<<"Invalid JSON">>, StatusBadRequest)
    ELSE IF q.method # "POST" THEN Error(<<"Method not allowed">>, StatusMethodNotAllowed)
    ELSE IF Decoded(q.body).name = "" \/ Decoded(q.body).email = ""
         THEN Error(<<"Name and email are required">>, StatusBadRequest)
    ELSE NoResp

createUserCheck(q) ==
    IF q.method # "POST" THEN Error(<<"Method not allowed">>, StatusMethodNotAllowed)
    ELSE IF DecodeErr(q.body) THEN Error(<<"Invalid JSON">>, StatusBadRequest)
    ELSE IF Decoded(q.body).name = "" \/ Decoded(q.body).email = ""
         THEN Error(<<"Name and email are required">>, StatusBadRequest)
    ELSE NoResp

listUsersCheck(q) ==
    IF q.method # "GET" THEN Error(<<"Method not allowed">>, StatusMethodNotAllowed)
    ELSE NoResp

deleteUserCheck(q) ==
    IF q.method # "DELETE" THEN Error(<<"Method not allowed">>, StatusMethodNotAllowed)
    ELSE IF DecodeErr(q.body) THEN Error(<<"Invalid JSON">>, StatusBadRequest)
    ELSE IF Decoded(q.body).email = ""
         THEN Error(<<"Email is required">>, StatusBadRequest)
    ELSE NoResp

updateUserCheck(q) ==
    IF q.method # "PUT" THEN Error(<<"Method not allowed">>, StatusMethodNotAllowed)
    ELSE IF DecodeErr(q.body) THEN Error(<<"Invalid JSON">>, StatusBadRequest)
    ELSE IF Decoded(q.body).oldEmail = "" \/ Decoded(q.body).name = ""
            \/ Decoded(q.body).email = ""
         THEN Error(<<"All fields are required">>, StatusBadRequest)
    ELSE NoResp

\* http.HandleFunc: the check of the handler registered for the route.
Check(q) ==
    CASE q.route = "/users" -> createUserCheck(q)
      [] q.route = "/users/list" -> listUsersCheck(q)
      [] q.route = "/users/delete" -> deleteUserCheck(q)
      [] q.route = "/users/update" -> updateUserCheck(q)

\* ------------------------------------------------------------ storage
\* The statements, as PostgreSQL executes them on the users table. Each
\* yields the error ("" for none) and the table after it.
Row(i, n, e, d) == [id |-> i, name |-> n, email |-> e, date_registered |-> d]

\* Mutant: the email column without its UNIQUE constraint.
InsertNoUnique(t, n, e, i, d) == [err |-> "", table |-> t \cup {Row(i, n, e, d)}]

\* INSERT INTO users (name, email) VALUES ($1, $2)
Insert(t, n, e, i, d) ==
    IF \E u \in t : u.email = e
    THEN [err |-> ErrUnique, table |-> t]
    ELSE [err |-> "", table |-> t \cup {Row(i, n, e, d)}]

\* Mutant: the statement without its WHERE clause.
UpdateAll(t, n, e, o) ==
    IF Cardinality(t) > 1
    THEN [err |-> ErrUnique, table |-> t]
    ELSE [err |-> "", table |-> {[u EXCEPT !.name = n, !.email = e] : u \in t}]

\* Mutant: the statement also sets date_registered = now().
UpdateTouchDate(t, n, e, o) ==
    LET hit == {u \in t : u.email = o}
        rest == t \ hit
    IN
    IF hit # {} /\ \E u \in rest : u.email = e
    THEN [err |-> ErrUnique, table |-> t]
    ELSE [err |-> "",
          table |-> rest \cup {[u EXCEPT !.name = n, !.email = e,
                                         !.date_registered = MaxNow] : u \in hit}]

\* UPDATE users SET name = $1, email = $2 WHERE email = $3
Update(t, n, e, o) ==
    LET hit == {u \in t : u.email = o}
        rest == t \ hit
    IN
    IF hit # {} /\ \E u \in rest : u.email = e
    THEN [err |-> ErrUnique, table |-> t]
    ELSE [err |-> "",
          table |-> rest \cup {[u EXCEPT !.name = n, !.email = e] : u \in hit}]

\* DELETE FROM users WHERE email = $1
Delete(t, e) == [err |-> "", table |-> {u \in t : u.email # e}]

\* Mutant: every storage call runs under one scope shared by all requests.
ctxDoneShared(r) == \E s \in Reqs : connGone[s]

\* r.Context().Done(): the scope request goroutine r's storage call runs under.
ctxDone(r) == connGone[r]

\* The errors the environment can end r's storage call with, "" for none:
\* a cancelled scope or a fault of the connection.
CallErrors(r) == IF ctxDone(r) THEN {ErrCanceled} ELSE {"", ErrConn}

\* Whether a call ending with error e had its statement executed: always
\* without an error, never after a connection fault, either way when the
\* scope was cancelled while the statement was in flight.
Executed(e) == IF e = "" THEN {TRUE} ELSE IF e = ErrCanceled THEN BOOLEAN ELSE {FALSE}

\* ------------------------------------------------------------ encoding
\* append on a Go slice: nil is the zero slice, distinct from an empty one.
Nil == [nil |-> TRUE, elems |-> <<>>]
append(s, u) == [nil |-> FALSE, elems |-> Append(s.elems, u)]

RECURSIVE EncodeUsers(_)
EncodeUsers(us) ==
    IF us = <<>> THEN <<>>
    ELSE <<"{", Head(us).name, Head(us).email, "}">> \o EncodeUsers(Tail(us))

\* json.NewEncoder(w).Encode(users), as the tokens of the body written.
Encode(s) ==
    IF s.nil THEN <<"null">>
    ELSE <<"[">> \o EncodeUsers(s.elems) \o <<"]">>

\* The rows.Next / rows.Scan loop over the first k rows of a result set.
RECURSIVE Collect(_, _)
Collect(rows, k) ==
    IF k = 0 THEN Nil
    ELSE append(Collect(rows, k - 1), [name |-> rows[k].name, email |-> rows[k].email])

\* The orders a result set of the rows of t can arrive in.
Orders(t) ==
    {s \in [1..Cardinality(t) -> t] : \A i, j \in 1..Cardinality(t) : i # j => s[i] # s[j]}

\* ----------------------------------------------------------- responses
\* The part of each handler after its storage call returned err.
createUserResponse(err) ==
    IF err # "" THEN Error(<<"Database error: ", err>>, StatusInternalServerError)
    ELSE [status |-> StatusCreated, body |-> <<"User added">>]

deleteUserResponse(err) ==
    IF err # "" THEN Error(<<"Database error">>, StatusInternalServerError)
    ELSE [status |-> StatusOK, body |-> <<"User deleted">>]

\* Mutant: the error of db.Exec is dropped.
updateUserResponseIgnoreErr(err) == [status |-> StatusOK, body |-> <<"User updated">>]

updateUserResponse(err) ==
    IF err # "" THEN Error(<<"Database error">>, StatusInternalServerError)
    ELSE [status |-> StatusOK, body |-> <<"User updated">>]

\* listUsersHandler after db.Query returned err.
listUsersQueryError(err) == Error(<<"Database error: ", err>>, StatusInternalServerError)

\* listUsersHandler after db.Query returned without error: the loop reads
\* the first k rows; fail says how it ended ("none": rows.Next reported the
\* end of the result set; "next": rows.Next returned false on an error,
\* kept in rows.Err(); "scan": rows.Scan returned an error).
listUsersResponse(rows, k, fail) ==
    IF fail = "scan" THEN Error(<<"Scan error">>, StatusInternalServerError)
    ELSE [status |-> StatusOK, body |-> Encode(Collect(rows, k))]

\* ---------------------------------------------------------------- Init
Init ==
    /\ table = {}
    /\ nextId = 1
    /\ db = "open"
    /\ mainpc = "serving"
    /\ listener = "starting"
    /\ quit = 0
    /\ timer = 0
    /\ pc = [r \in Reqs |-> "idle"]
    /\ req = [r \in Reqs |-> NoReq]
    /\ connGone = [r \in Reqs |-> FALSE]
    /\ out = NoOut
    /\ added = {}

\* ------------------------------------------------------------- handlers
Active == {r \in Reqs : pc[r] = "db"}

\* Rows the SERIAL sequence can still number (the bound of the model).
InsertBudget == nextId + Cardinality({r \in Active : req[r].route = "/users"}) <= MaxId

\* net/http accepts request q on a free goroutine r (the first free one:
\* goroutines are interchangeable) and runs the handler of its route up to
\* the storage call, or to the response it returns early with.
Serve(r, q) ==
    /\ listener = "open"
    /\ pc[r] = "idle"
    /\ \A s \in Reqs : s < r => pc[s] = "db"
    /\ IF Check(q) = NoResp
       THEN /\ pc' = [pc EXCEPT ![r] = "db"]
            /\ req' = [req EXCEPT ![r] = q]
            /\ out' = NoOut
       ELSE /\ out' = [req |-> q, resp |-> Check(q), err |-> "", at |-> ""]
            /\ UNCHANGED <<pc, req>>
    /\ UNCHANGED <<dataVars, mainVars, connGone, added>>

createUserHandler(r, q) ==
    /\ q.route = "/users"
    /\ Check(q) = NoResp => InsertBudget
    /\ Serve(r, q)

listUsersHandler(r, q) == q.route = "/users/list" /\ Serve(r, q)

deleteUserHandler(r, q) == q.route = "/users/delete" /\ Serve(r, q)

updateUserHandler(r, q) == q.route = "/users/update" /\ Serve(r, q)

\* The storage call of goroutine r ended with err, which came from call at
\* ("exec", "query", "scan", or "next" for one kept in rows.Err()); the
\* handler writes w and returns.
Respond(r, err, at, w) ==
    /\ out' = [req |-> req[r], resp |-> w, err |-> err,
               at |-> IF err = "" THEN "" ELSE at]
    /\ pc' = [pc EXCEPT ![r] = "idle"]
    /\ req' = [req EXCEPT ![r] = NoReq]
    /\ connGone' = [connGone EXCEPT ![r] = FALSE]
    /\ UNCHANGED mainVars

\* db.Exec(INSERT) of createUserHandler and the response after it.
createUserExec(r) ==
    /\ pc[r] = "db" /\ req[r].route = "/users"
    /\ \E e \in CallErrors(r) : \E x \in Executed(e) : \E d \in Timestamps :
         LET in == Decoded(req[r].body)
             res == IF x THEN Insert(table, in.name, in.email, nextId, d)
                    ELSE [err |-> e, table |-> table]
             err == IF e # "" THEN e ELSE res.err
         IN /\ table' = res.table
            /\ nextId' = IF x THEN nextId + 1 ELSE nextId
            /\ added' = IF err = "" THEN added \cup {in.email} ELSE added
            /\ Respond(r, err, "exec", createUserResponse(err))

\* db.Query(SELECT), the rows loop and the response of listUsersHandler.
listUsersQuery(r) ==
    /\ pc[r] = "db" /\ req[r].route = "/users/list"
    /\ UNCHANGED <<table, nextId, added>>
    /\ \/ \E e \in CallErrors(r) \ {""} :
            Respond(r, e, "query", listUsersQueryError(e))
       \/ /\ ~ctxDone(r)
          /\ \E rows \in Orders(table) :
                Respond(r, "", "", listUsersResponse(rows, Len(rows), "none"))
       \/ \E rows \in Orders(table) : \E k \in 0..(Len(rows) - 1) :
             \/ Respond(r, IF ctxDone(r) THEN ErrCanceled ELSE ErrConn, "next",
                        listUsersResponse(rows, k, "next"))
             \/ Respond(r, ErrScan, "scan", listUsersResponse(rows, k, "scan"))

\* db.Exec(DELETE) of deleteUserHandler and the response after it.
deleteUserExec(r) ==
    /\ pc[r] = "db" /\ req[r].route = "/users/delete"
    /\ \E e \in CallErrors(r) : \E x \in Executed(e) :
         LET in == Decoded(req[r].body)
             res == IF x THEN Delete(table, in.email) ELSE [err |-> e, table |-> table]
             err == IF e # "" THEN e ELSE res.err
         IN /\ table' = res.table
            /\ UNCHANGED <<nextId, added>>
            /\ Respond(r, err, "exec", deleteUserResponse(err))

\* db.Exec(UPDATE) of updateUserHandler and the response after it.
updateUserExec(r) ==
    /\ pc[r] = "db" /\ req[r].route = "/users/update"
    /\ \E e \in CallErrors(r) : \E x \in Executed(e) :
         LET in == Decoded(req[r].body)
             res == IF x THEN Update(table, in.name, in.email, in.oldEmail)
                    ELSE [err |-> e, table |-> table]
             err == IF e # "" THEN e ELSE res.err
         IN /\ table' = res.table
            /\ UNCHANGED <<nextId, added>>
            /\ Respond(r, err, "exec", updateUserResponse(err))

\* The client of request r closes its connection while the handler runs:
\* net/http cancels the context of that request.
ClientDisconnect(r) ==
    /\ pc[r] = "db" /\ ~connGone[r]
    /\ connGone' = [connGone EXCEPT ![r] = TRUE]
    /\ out' = NoOut
    /\ UNCHANGED <<dataVars, mainVars, pc, req, added>>

\* ----------------------------------------------------------------- main
\* The goroutine of main: server.ListenAndServe() binds and accepts.
ListenAndServe ==
    /\ mainpc = "serving" /\ listener = "starting"
    /\ listener' = "open"
    /\ out' = NoOut
    /\ UNCHANGED <<dataVars, reqVars, added, db, mainpc, quit, timer>>

\* server.ListenAndServe() fails: log.Fatalf exits without the deferred calls.
ListenFatal ==
    /\ mainpc = "serving" /\ listener = "starting"
    /\ listener' = "closed"
    /\ mainpc' = "exited"
    /\ out' = NoOut
    /\ UNCHANGED <<dataVars, reqVars, added, db, quit, timer>>

\* os.Interrupt or SIGTERM is delivered: signal.Notify buffers one signal
\* (main reads the channel once: a later signal changes nothing).
Signal ==
    /\ mainpc = "serving" /\ quit = 0
    /\ quit' = 1
    /\ out' = NoOut
    /\ UNCHANGED <<dataVars, reqVars, added, db, mainpc, listener, timer>>

\* Mutant: server.Close() in place of server.Shutdown: it never waits.
ShutdownDoneNow(active, t) == TRUE

\* Whether server.Shutdown(shutdownCtx) returns: no handler is running, or
\* shutdownCtx has expired.
ShutdownDone(active, t) == active = {} \/ t = 0

\* <-quit returns and server.Shutdown(shutdownCtx) closes the listener.
Shutdown ==
    /\ mainpc = "serving" /\ quit = 1
    /\ quit' = 0
    /\ mainpc' = "shutdown"
    /\ listener' = "closed"
    /\ timer' = GracePeriod
    /\ out' = NoOut
    /\ UNCHANGED <<dataVars, reqVars, added, db>>

\* A second passes while server.Shutdown waits.
ShutdownTick ==
    /\ mainpc = "shutdown" /\ ~ShutdownDone(Active, timer)
    /\ timer' = timer - 1
    /\ out' = NoOut
    /\ UNCHANGED <<dataVars, reqVars, added, db, mainpc, listener, quit>>

\* server.Shutdown returns; main returns and its deferred db.Close() starts.
ShutdownReturn ==
    /\ mainpc = "shutdown" /\ ShutdownDone(Active, timer)
    /\ mainpc' = "closing"
    /\ db' = "closing"
    /\ out' = NoOut
    /\ UNCHANGED <<dataVars, reqVars, added, listener, quit, timer>>

\* db.Close() returns once every connection is back in the pool; the
\* process exits.
dbClose ==
    /\ mainpc = "closing" /\ Active = {}
    /\ db' = "closed"
    /\ mainpc' = "exited"
    /\ out' = NoOut
    /\ UNCHANGED <<dataVars, reqVars, added, listener, quit, timer>>

Next ==
    \/ \E r \in Reqs : \E q \in Requests : createUserHandler(r, q)
    \/ \E r \in Reqs : \E q \in Requests : listUsersHandler(r, q)
    \/ \E r \in Reqs : \E q \in Requests : deleteUserHandler(r, q)
    \/ \E r \in Reqs : \E q \in Requests : updateUserHandler(r, q)
    \/ \E r \in Reqs : createUserExec(r)
    \/ \E r \in Reqs : listUsersQuery(r)
    \/ \E r \in Reqs : deleteUserExec(r)
    \/ \E r \in Reqs : updateUserExec(r)
    \/ \E r \in Reqs : ClientDisconnect(r)
    \/ ListenAndServe
    \/ ListenFatal
    \/ Signal
    \/ Shutdown
    \/ ShutdownTick
    \/ ShutdownReturn
    \/ dbClose

Spec == Init /\ [][Next]_vars

\* The server under clients that send one request at a time, over the
\* requests of SeqRequests.
NextSeq ==
    \/ \E q \in SeqRequests : Active = {} /\ createUserHandler(1, q)
    \/ \E q \in SeqRequests : Active = {} /\ listUsersHandler(1, q)
    \/ \E q \in SeqRequests : Active = {} /\ deleteUserHandler(1, q)
    \/ \E q \in SeqRequests : Active = {} /\ updateUserHandler(1, q)
    \/ createUserExec(1)
    \/ listUsersQuery(1)
    \/ deleteUserExec(1)
    \/ updateUserExec(1)
    \/ ClientDisconnect(1)
    \/ ListenAndServe
    \/ ListenFatal
    \/ Signal
    \/ Shutdown
    \/ ShutdownTick
    \/ ShutdownReturn
    \/ dbClose

SpecSeq == Init /\ [][NextSeq]_vars

\* The same, over every request of AllRequests.
NextInput ==
    \/ \E q \in AllRequests : Active = {} /\ createUserHandler(1, q)
    \/ \E q \in AllRequests : Active = {} /\ listUsersHandler(1, q)
    \/ \E q \in AllRequests : Active = {} /\ deleteUserHandler(1, q)
    \/ \E q \in AllRequests : Active = {} /\ updateUserHandler(1, q)
    \/ createUserExec(1)
    \/ listUsersQuery(1)
    \/ deleteUserExec(1)
    \/ updateUserExec(1)
    \/ ClientDisconnect(1)
    \/ ListenAndServe
    \/ ListenFatal
    \/ Signal
    \/ Shutdown
    \/ ShutdownTick
    \/ ShutdownReturn
    \/ dbClose

SpecInput == Init /\ [][NextInput]_vars

\* Scheduling: the goroutine of main runs, and the database answers every
\* storage call in flight.
LiveSpec ==
    /\ Spec
    /\ WF_vars(Shutdown \/ ShutdownTick \/ ShutdownReturn \/ dbClose)
    /\ \A r \in Reqs :
         WF_vars(createUserExec(r) \/ listUsersQuery(r) \/ deleteUserExec(r)
                 \/ updateUserExec(r))

\* ------------------------------------------------------------ properties
\* The exchange o went through its handler's storage call.
Reached(o) == o.req # NoReq /\ Check(o.req) = NoResp
IsRoute(o, rt) == Reached(o) /\ o.req.route = rt

\* The step returns from the handler running on goroutine r.
Finishes(r) == pc[r] = "db" /\ pc'[r] = "idle"

\* The JSON body holds the object {name: n, email: e}.
HasUser(body, n, e) ==
    \E i \in 1..(Len(body) - 3) :
        body[i] = "{" /\ body[i + 1] = n /\ body[i + 2] = e /\ body[i + 3] = "}"

HasRow(t, n, e) == \E u \in t : u.name = n /\ u.email = e

\* C1: a create with non-empty name and email, whose email is not in the
\* table and whose storage call meets no fault, answers 201 "User added" and
\* adds the record; the record stays in the table until an update or delete
\* keyed by its email executes; and every list result holds every record of
\* the table.
C1_CreatedThenListed ==
    [][/\ \A r \in Reqs :
            (/\ Finishes(r) /\ req[r].route = "/users"
             /\ ~\E u \in table : u.email = req[r].body.email
             /\ out'.err \notin EnvErrors)
            => /\ out'.resp = [status |-> StatusCreated, body |-> <<"User added">>]
               /\ HasRow(table', req[r].body.name, req[r].body.email)
       /\ \A u \in table :
            HasRow(table', u.name, u.email)
            \/ \E r \in Reqs :
                 /\ Finishes(r)
                 /\ \/ req[r].route = "/users/delete" /\ req[r].body.email = u.email
                    \/ req[r].route = "/users/update" /\ req[r].body.oldEmail = u.email
       /\ (IsRoute(out', "/users/list") /\ out'.resp.status = StatusOK)
            => \A u \in table' : HasUser(out'.resp.body, u.name, u.email)
      ]_vars

\* C3: a list request served from an empty table answers 200 with the body
\* [], an empty JSON array.
C3_EmptyListIsEmptyArray ==
    (IsRoute(out, "/users/list") /\ table = {} /\ out.err = "")
        => out.resp = [status |-> StatusOK, body |-> <<"[", "]">>]

\* C6: every storage failure of a list request answers 500, and a list
\* response of status 200 holds every row of the result set.
C6_ListFailureNeverPartial ==
    IsRoute(out, "/users/list")
        => /\ out.err # "" => out.resp.status = StatusInternalServerError
           /\ out.resp.status = StatusOK
                => \A u \in table : HasUser(out.resp.body, u.name, u.email)

\* The input struct the handler on goroutine r decoded.
In(r) == Decoded(req[r].body)

\* C4: an update whose oldEmail matches no record, and a delete whose email
\* matches no record, leave the table as it was and, when the storage call
\* meets no fault, answer 200.
C4_NoMatchChangesNothing ==
    [][\A r \in Reqs :
         (/\ Finishes(r)
          /\ \/ /\ req[r].route = "/users/update"
                /\ ~\E u \in table : u.email = In(r).oldEmail
             \/ /\ req[r].route = "/users/delete"
                /\ ~\E u \in table : u.email = In(r).email)
         => /\ table' = table
            /\ out'.err \notin EnvErrors
                 => out'.resp =
                      [status |-> StatusOK,
                       body |-> IF req[r].route = "/users/update"
                                THEN <<"User updated">> ELSE <<"User deleted">>]
      ]_vars

\* An update was answered 200 although no row carries what it wrote: it
\* matched nothing, and the table is not empty.
C4_UpdatedNothing ==
    /\ IsRoute(out, "/users/update")
    /\ out.resp.status = StatusOK
    /\ table # {}
    /\ ~HasRow(table, out.req.body.name, out.req.body.email)

\* C5 as stated: on every endpoint a database error answers 500 with the
\* raw error message in the body.
C5_EveryErrorIsRaw500 ==
    (out.req # NoReq /\ out.err # "")
        => /\ out.resp.status = StatusInternalServerError
           /\ \E i \in DOMAIN out.resp.body : out.resp.body[i] = out.err

\* C5 amended: an error returned by db.Exec, db.Query or rows.Scan answers
\* 500; the body carries the raw message for create and for the db.Query of
\* list, and a fixed text for update, delete and a failed scan.
C5_ReturnedErrorIs500 ==
    (Reached(out) /\ out.err # "" /\ out.at # "next")
        => out.resp =
             [status |-> StatusInternalServerError,
              body |-> CASE out.req.route = "/users" -> <<"Database error: ", out.err>>
                         [] out.req.route = "/users/list" /\ out.at = "query"
                              -> <<"Database error: ", out.err>>
                         [] out.req.route = "/users/list" /\ out.at = "scan"
                              -> <<"Scan error">>
                         [] out.req.route \in {"/users/delete", "/users/update"}
                              -> <<"Database error">>]

\* An update that violated the uniqueness of email was answered 500.
C5_UpdateViolatedUnique ==
    /\ IsRoute(out, "/users/update")
    /\ out.err = ErrUnique
    /\ out.resp.status = StatusInternalServerError

\* C10: a successful update rewrites name and email of the one record whose
\* email is oldEmail, keeps its id and date_registered and every other
\* record; no step changes the date_registered of an id, ids are unique and
\* a new record takes an id no record had before.
C10_UpdateRewritesOneRecord ==
    [][/\ \A r \in Reqs :
            (Finishes(r) /\ req[r].route = "/users/update"
             /\ out'.resp.status = StatusOK)
            => /\ Cardinality({u \in table : u.email = In(r).oldEmail}) <= 1
               /\ Cardinality(table') = Cardinality(table)
               /\ \A u \in table :
                    IF u.email = In(r).oldEmail
                    THEN Row(u.id, In(r).name, In(r).email, u.date_registered) \in table'
                    ELSE u \in table'
       /\ \A u \in table : \A v \in table' :
            u.id = v.id => u.date_registered = v.date_registered
       /\ \A v \in table' : v.id < nextId'
       /\ \A v \in table' : (\A u \in table : u.id # v.id) => v.id >= nextId
       /\ \A u, v \in table' : u.id = v.id => u = v
      ]_vars

\* A successful update rewrote a record that has a second record beside it.
C10_UpdatedBesideAnother ==
    /\ IsRoute(out, "/users/update")
    /\ out.resp.status = StatusOK
    /\ HasRow(table, out.req.body.name, out.req.body.email)
    /\ Cardinality(table) = 2

\* The method each route is registered for, and the fields its handler
\* requires of body b.
MethodFor(rt) ==
    CASE rt = "/users" -> "POST"
      [] rt = "/users/list" -> "GET"
      [] rt = "/users/delete" -> "DELETE"
      [] rt = "/users/update" -> "PUT"
Required(rt, b) ==
    CASE rt = "/users" -> {b.name, b.email}
      [] rt = "/users/list" -> {}
      [] rt = "/users/delete" -> {b.email}
      [] rt = "/users/update" -> {b.oldEmail, b.name, b.email}

\* The step rejects a request: it answers 400 or 405.
Rejects == out'.resp.status \in {StatusBadRequest, StatusMethodNotAllowed}

\* C7 as stated: each of the four handlers answers 405 to a wrong method
\* whatever the body, 400 to the right method with a body that does not
\* decode or lacks a required field, starts its storage call only when
\* method, decode and fields all pass, and a rejected request leaves the
\* table and the storage untouched.
C7_FourHandlersCheckBody ==
    [][/\ out' # NoOut =>
            LET q == out'.req IN
            /\ q.method # MethodFor(q.route)
                 => out'.resp.status = StatusMethodNotAllowed
            /\ (/\ q.method = MethodFor(q.route)
                /\ \/ DecodeErr(q.body)
                   \/ "" \in Required(q.route, Decoded(q.body)))
                 => out'.resp.status = StatusBadRequest
       /\ \A r \in Reqs :
            (pc[r] = "idle" /\ pc'[r] = "db")
            => /\ req'[r].method = MethodFor(req'[r].route)
               /\ ~DecodeErr(req'[r].body)
               /\ "" \notin Required(req'[r].route, Decoded(req'[r].body))
       /\ Rejects => UNCHANGED <<table, nextId, pc, req>>
      ]_vars

\* C7 amended: create, update and delete check method, decode and fields in
\* that order; list checks the method alone and does not read the body; the
\* decode fails only when the first JSON value of the body does.
C7_ChecksInOrder ==
    [][/\ out' # NoOut =>
            LET q == out'.req IN
            /\ q.method # MethodFor(q.route)
                 => out'.resp = Error(<<"Method not allowed">>, StatusMethodNotAllowed)
            /\ (/\ q.method = MethodFor(q.route)
                /\ q.route # "/users/list"
                /\ DecodeErr(q.body))
                 => out'.resp = Error(<<"Invalid JSON">>, StatusBadRequest)
            /\ (/\ q.method = MethodFor(q.route)
                /\ q.route # "/users/list"
                /\ ~DecodeErr(q.body)
                /\ "" \in Required(q.route, Decoded(q.body)))
                 => out'.resp.status = StatusBadRequest
            /\ (/\ q.method = MethodFor(q.route)
                /\ \/ q.route = "/users/list"
                   \/ /\ ~DecodeErr(q.body)
                      /\ "" \notin Required(q.route, Decoded(q.body)))
                 => /\ ~Rejects
                    /\ \E r \in Reqs : Finishes(r) /\ req[r] = q
       /\ \A r \in Reqs :
            (pc[r] = "idle" /\ pc'[r] = "db")
            => /\ req'[r].method = MethodFor(req'[r].route)
               /\ \/ req'[r].route = "/users/list"
                  \/ /\ ~DecodeErr(req'[r].body)
                     /\ "" \notin Required(req'[r].route, Decoded(req'[r].body))
       /\ Rejects => UNCHANGED <<table, nextId, pc, req>>
      ]_vars

\* GET on the create route with a body that is not JSON was answered 405.
C7_GetUsersIs405 ==
    /\ out.req = Request("/users", "GET", NoBody)
    /\ out.resp.status = StatusMethodNotAllowed

UniqueEmails(t) == \A u, v \in t : u.email = v.email => u = v

\* C2 as stated: the table never holds two rows with one email, and of the
\* creates carrying one email at most one is answered 201.
C2_AtMostOneCreated ==
    [][/\ UniqueEmails(table')
       /\ (IsRoute(out', "/users") /\ out'.resp.status = StatusCreated)
            => out'.req.body.email \notin added
      ]_vars

\* C2 amended: the table never holds two rows with one email; a create whose
\* email is in the table when its INSERT executes is answered 500 and
\* changes nothing; a create answered 201 found no row with its email and
\* left exactly one.
C2_UniqueEmail ==
    [][/\ UniqueEmails(table')
       /\ \A r \in Reqs :
            (Finishes(r) /\ req[r].route = "/users")
            => /\ (\E u \in table : u.email = In(r).email)
                    => /\ out'.resp.status = StatusInternalServerError
                       /\ table' = table
               /\ out'.resp.status = StatusCreated
                    => /\ ~\E u \in table : u.email = In(r).email
                       /\ Cardinality({u \in table' : u.email = In(r).email}) = 1
      ]_vars

\* A create was answered 500 for violating the uniqueness of email, and the
\* table holds the one row of that email.
C2_DuplicateRefused ==
    /\ IsRoute(out, "/users")
    /\ out.err = ErrUnique
    /\ out.resp.status = StatusInternalServerError
    /\ Cardinality({u \in table : u.email = out.req.body.email}) = 1

\* C9 as stated: a storage call in flight is cancelled once shutdown has
\* begun, as it is once its own client has disconnected.
C9_ShutdownCancelsCalls ==
    \A r \in Reqs :
        pc[r] = "db" => /\ connGone[r] => ctxDone(r)
                        /\ mainpc # "serving" => ctxDone(r)

\* C9 amended: a storage call ends cancelled only when the client of its own
\* request has disconnected, and then it does not succeed; the disconnect of
\* one client leaves the scope of every other request as it was, and so does
\* every step of main, the start of shutdown among them.
C9_OwnScopeOnly ==
    [][/\ \A r \in Reqs :
            Finishes(r) => /\ out'.err = ErrCanceled => connGone[r]
                           /\ connGone[r] => out'.err # ""
       /\ \A r \in Reqs :
            (pc[r] = "db" /\ pc'[r] = "db" /\ ctxDone(r)' # ctxDone(r))
            => connGone'[r] # connGone[r]
       /\ mainpc' # mainpc => \A r \in Reqs : ctxDone(r)' = ctxDone(r)
      ]_vars

\* Shutdown has begun, one storage call in flight has lost its client and
\* another has not.
C9_OneOfTwoCancelled ==
    /\ mainpc = "shutdown"
    /\ \E r, s \in Reqs : /\ pc[r] = "db" /\ ctxDone(r)
                           /\ pc[s] = "db" /\ ~ctxDone(s)

====
